---- MODULE Spec2Model ----
(***************************************************************************)
(* Model of FinSankey's dataParser.ts: parseExcelData in its two versions, *)
(* the loss-routing parser (src/unnamed/part_000) and the sign-as-category *)
(* parser (src/unnamed/part_001), and of the SankeyChart component that    *)
(* lays the parsed graph out and handles drags, in its two versions        *)
(* (src/src/taskpane/SankeyChart.tsx and the one in Taskpane.tsx), of      *)
(* formatValue in its two versions, and of the task pane's loadData and    *)
(* exportToSheet (src/src/taskpane/Taskpane.tsx).                          *)
(*                                                                         *)
(* Representation.  A JavaScript string is a sequence of one-character     *)
(* strings.  A JavaScript number is an integer count of ten-thousandths    *)
(* (1.5 is 15000), so that "1,5", "1.5", the link floor 0.001 and amounts  *)
(* below the floor are exact.                                              *)
(* A cell is a record tagged with its typeof.  A percentage is an exact    *)
(* fraction in lowest terms, or null.  A Map is the sequence of its        *)
(* entries in insertion order.                                             *)
(***************************************************************************)
EXTENDS Integers, Sequences, FiniteSets

VARIABLES
    parser,       \* which dataParser.ts runs: "loss" (part_000) or "sign" (part_001)
    rawNull,      \* the argument rawValues is missing (!rawValues)
    rawValues,    \* the argument rawValues, a sequence of rows of four cells
    pc,           \* position in the call: "start", "loop", "done", "error"
    hasHeader,    \* const hasHeader
    rows,         \* const rows
    idx,          \* position of for (const row of rows), from 1
    nodeTotals,   \* const nodeTotals, the Map's entries in insertion order
    linkMeta,     \* const linkMeta
    sankeyLinks,  \* const sankeyLinks
    nodeMeta,     \* const nodeMeta, the Map's entries in insertion order
    sankeyNodes,  \* GraphData.sankeyNodes
    chart,        \* which SankeyChart renders: "current" (SankeyChart.tsx) or
                  \* "embedded" (the component listed in Taskpane.tsx from line 275)
    props,        \* the component's props scale, displayMode, decimals, width, height
    rendered,     \* the effect has drawn the graph
    gNodes,       \* graph.nodes of the effect's closure, in the order of sankeyNodes
    gLinks,       \* graph.links of the effect's closure, in the order of sankeyLinks
    dragState,    \* dragState.current, a map from node id to {x0, y0}
    drags,        \* number of drag events handled
    formatArgs,   \* the arguments value, scale, decimals of a call of formatValue
    formatted,    \* what the call of formatValue returned
    graphData,    \* the task pane's state graphData (null, or the parsed GraphData)
    error,        \* the task pane's state error (null, or a message)
    loading,      \* the task pane's state loading
    loadPc,       \* position in loadData: "idle", "reading" (awaiting the host),
                  \* "parsing" (inside parseExcelData)
    hostScript,   \* what the host will answer to the reads still to come
    exporting     \* the task pane's state exporting

parserVars == <<parser, rawNull, rawValues, pc, hasHeader, rows, idx,
                nodeTotals, linkMeta, sankeyLinks, nodeMeta, sankeyNodes>>

chartVars == <<chart, props, rendered, gNodes, gLinks, dragState, drags>>

formatVars == <<formatArgs, formatted>>

paneVars == <<graphData, error, loading, loadPc, hostScript, exporting>>

vars == <<parserVars, chartVars, formatVars, paneVars>>

(* ------------------------------ bounds -------------------------------- *)

\* Largest number of rows of an input range.
MaxRows == 3

\* Largest number of drag events of a behaviour.
MaxDrags == 2

(* ------------------------- numbers and cells -------------------------- *)

\* One unit (1.0) in ten-thousandths.
Unit == 10 * 10 * 10 * 10

Abs(x) == IF x < 0 THEN -x ELSE x

Max(a, b) == IF a >= b THEN a ELSE b

Str(s) == [t |-> "string", s |-> s, n |-> 0, b |-> FALSE]
Num(n) == [t |-> "number", s |-> <<>>, n |-> n, b |-> FALSE]
Bool(b) == [t |-> "boolean", s |-> <<>>, n |-> 0, b |-> b]
Undef == [t |-> "undefined", s |-> <<>>, n |-> 0, b |-> FALSE]

\* JavaScript truthiness of a cell, as used by !row[0] and !row[1].
Truthy(c) ==
    CASE c.t = "string" -> c.s # <<>>
      [] c.t = "number" -> c.n # 0
      [] c.t = "boolean" -> c.b
      [] OTHER -> FALSE

(* ------------------------------ strings ------------------------------- *)

Digits == <<"0", "1", "2", "3", "4", "5", "6", "7", "8", "9">>

IsDigit(c) == \E d \in 1..10 : Digits[d] = c

DigitVal(c) == (CHOOSE d \in 1..10 : Digits[d] = c) - 1

IsSpace(c) == c = " "

RECURSIVE TrimStart(_)
TrimStart(s) ==
    IF s # <<>> /\ IsSpace(Head(s)) THEN TrimStart(Tail(s)) ELSE s

RECURSIVE TrimEnd(_)
TrimEnd(s) ==
    IF s # <<>> /\ IsSpace(s[Len(s)]) THEN TrimEnd(SubSeq(s, 1, Len(s) - 1)) ELSE s

\* String.prototype.trim
Trim(s) == TrimEnd(TrimStart(s))

\* .replace(/\s/g, "")
RemoveSpaces(s) == SelectSeq(s, LAMBDA c : ~IsSpace(c))

\* .replace(",", "."): only the first comma is replaced.
ReplaceComma(s) ==
    IF \E k \in 1..Len(s) : s[k] = ","
    THEN LET k == CHOOSE j \in 1..Len(s) :
                      s[j] = "," /\ \A m \in 1..(j - 1) : s[m] # ","
         IN [j \in 1..Len(s) |-> IF j = k THEN "." ELSE s[j]]
    ELSE s

StartsWith(s, p) == Len(s) >= Len(p) /\ SubSeq(s, 1, Len(p)) = p

Includes(s, k) ==
    \E j \in 1..(Len(s) - Len(k) + 1) : SubSeq(s, j, j + Len(k) - 1) = k

\* Number of digit characters of s starting at position j.
RECURSIVE DigitRun(_, _)
DigitRun(s, j) ==
    IF j <= Len(s) /\ IsDigit(s[j]) THEN 1 + DigitRun(s, j + 1) ELSE 0

\* Value of the k digits of s that start at position j.
RECURSIVE DigitsValue(_, _, _)
DigitsValue(s, j, k) ==
    IF k = 0 THEN 0
    ELSE DigitsValue(s, j, k - 1) * 10 + DigitVal(s[j + k - 1])

\* Ten-thousandths denoted by the fraction digits of s at j (k of them).
FractionValue(s, j, k) ==
    (IF k >= 1 THEN DigitVal(s[j]) * 1000 ELSE 0)
    + (IF k >= 2 THEN DigitVal(s[j + 1]) * 100 ELSE 0)
    + (IF k >= 3 THEN DigitVal(s[j + 2]) * 10 ELSE 0)
    + (IF k >= 4 THEN DigitVal(s[j + 3]) ELSE 0)

NaN == [nan |-> TRUE, val |-> 0]

\* parseFloat: leading white space, a sign, digits, a point, digits; the
\* longest such prefix is read and anything after it is ignored.  NaN when
\* the prefix holds no digit.  (No exponent and no "Infinity": the inputs
\* hold neither.)
ParseFloat(str) ==
    LET s == TrimStart(str)
        neg == s # <<>> /\ s[1] = "-"
        signed == s # <<>> /\ s[1] \in {"-", "+"}
        p == IF signed THEN 2 ELSE 1
        ni == DigitRun(s, p)
        dot == p + ni <= Len(s) /\ s[p + ni] = "."
        nf == IF dot THEN DigitRun(s, p + ni + 1) ELSE 0
        mag == DigitsValue(s, p, ni) * Unit + FractionValue(s, p + ni + 1, nf)
    IN IF ni + nf = 0 THEN NaN
       ELSE [nan |-> FALSE, val |-> IF neg THEN -mag ELSE mag]

\* Decimal digits of a natural number.
RECURSIVE NatToStr(_)
NatToStr(k) ==
    IF k < 10 THEN <<Digits[k + 1]>>
    ELSE Append(NatToStr(k \div 10), Digits[(k % 10) + 1])

RECURSIVE StripZeros(_)
StripZeros(s) ==
    IF s # <<>> /\ s[Len(s)] = "0" THEN StripZeros(SubSeq(s, 1, Len(s) - 1)) ELSE s

\* String(n) of a number n (in ten-thousandths).
NumToStr(n) ==
    LET m == Abs(n)
        f == m % Unit
        frac == StripZeros(<<Digits[(f \div 1000) + 1], Digits[((f \div 100) % 10) + 1],
                             Digits[((f \div 10) % 10) + 1], Digits[(f % 10) + 1]>>)
    IN (IF n < 0 THEN <<"-">> ELSE <<>>)
       \o NatToStr(m \div Unit)
       \o (IF frac = <<>> THEN <<>> ELSE <<".">> \o frac)

\* String(raw)
StringOf(c) ==
    CASE c.t = "string" -> c.s
      [] c.t = "number" -> NumToStr(c.n)
      [] c.t = "boolean" -> IF c.b THEN <<"t", "r", "u", "e">>
                            ELSE <<"f", "a", "l", "s", "e">>
      [] OTHER -> <<"u", "n", "d", "e", "f", "i", "n", "e", "d">>

(* ------------------------------ parseNum ------------------------------ *)

\* parseNum reading the point only: the comma is not replaced.
parseNumPointOnly(raw) ==
    IF raw.t = "number" THEN raw.n
    ELSE LET p == ParseFloat(RemoveSpaces(Trim(StringOf(raw))))
         IN IF p.nan \/ p.val = 0 THEN 0 ELSE p.val

parseNum(raw) ==
    IF raw.t = "number" THEN raw.n
    ELSE LET p == ParseFloat(ReplaceComma(RemoveSpaces(Trim(StringOf(raw)))))
         IN IF p.nan \/ p.val = 0 THEN 0 ELSE p.val

\* row[3] ?? 0
PriorCell(row) == IF row[4].t = "undefined" THEN Num(0) ELSE row[4]

(* --------------------------- header detection ------------------------- *)

HasHeader(first) ==
    first[3].t = "string" /\ ParseFloat(ReplaceComma(first[3].s)).nan

(* ------------------------------ classifyId ---------------------------- *)

COLORS ==
    [profit |-> [fill |-> "#4CAF50", accent |-> "#2E7D32", link |-> "rgba(76,175,80,0.5)"],
     cost |-> [fill |-> "#E91E63", accent |-> "#880E4F", link |-> "rgba(233,30,99,0.5)"],
     neutral |-> [fill |-> "#9E9E9E", accent |-> "#424242", link |-> "rgba(158,158,158,0.45)"]]

PROFIT_KW ==
    <<<<"p", "r", "o", "f", "i", "t">>,
      <<"r", "e", "v", "e", "n", "u", "e">>,
      <<"i", "n", "c", "o", "m", "e">>,
      <<"e", "a", "r", "n", "i", "n", "g", "s">>,
      <<"g", "a", "i", "n">>,
      <<"n", "e", "t">>,
      <<"g", "r", "o", "s", "s">>,
      <<"e", "b", "i", "t">>>>

COST_KW ==
    <<<<"c", "o", "s", "t">>,
      <<"e", "x", "p", "e", "n", "s", "e">>,
      <<"t", "a", "x">>,
      <<"l", "o", "s", "s">>,
      <<"c", "h", "a", "r", "g", "e">>,
      <<"r", "&", "d">>,
      <<"s", "g", "&", "a">>,
      <<"c", "o", "g", "s">>,
      <<"d", "e", "p", "r", "e", "c">>,
      <<"a", "m", "o", "r", "t">>,
      <<"i", "n", "t", "e", "r", "e", "s", "t">>,
      <<"o", "t", "h", "e", "r">>>>

UpperCase == <<"A", "B", "C", "D", "E", "F", "G", "H", "I", "J", "K", "L", "M", "N", "O", "P", "Q", "R", "S", "T", "U", "V", "W", "X", "Y", "Z">>

LowerCase == <<"a", "b", "c", "d", "e", "f", "g", "h", "i", "j", "k", "l", "m", "n", "o", "p", "q", "r", "s", "t", "u", "v", "w", "x", "y", "z">>

\* toLowerCase
ToLower(s) ==
    [j \in 1..Len(s) |->
        IF \E u \in 1..Len(UpperCase) : UpperCase[u] = s[j]
        THEN LowerCase[CHOOSE u \in 1..Len(UpperCase) : UpperCase[u] = s[j]]
        ELSE s[j]]

classifyId(id) ==
    LET lo == ToLower(id)
    IN IF \E k \in 1..Len(COST_KW) : Includes(lo, COST_KW[k]) THEN "cost"
       ELSE IF \E k \in 1..Len(PROFIT_KW) : Includes(lo, PROFIT_KW[k]) THEN "profit"
       ELSE "neutral"

(* ----------------------------- percentages ---------------------------- *)

RECURSIVE Gcd(_, _)
Gcd(a, b) == IF b = 0 THEN a ELSE Gcd(b, a % b)

NullPct == [null |-> TRUE, num |-> 0, den |-> 1]

\* The number n / d (d # 0) as a fraction in lowest terms, den > 0.
Frac(n, d) ==
    LET g == Gcd(Abs(n), Abs(d))
        sgn == IF d < 0 THEN -1 ELSE 1
    IN [null |-> FALSE, num |-> (sgn * n) \div g, den |-> Abs(d) \div g]

\* An edge percentage that is null for every prior that is not positive.
EdgeYoyPositivePrior(val, prior) ==
    IF prior > 0 THEN Frac((val - prior) * 100, Abs(prior)) ELSE NullPct

\* An edge percentage divided by the signed prior.
EdgeYoySignedDivisor(val, prior) ==
    IF prior # 0 THEN Frac((val - prior) * 100, prior) ELSE NullPct

\* yoyPct of a row: prior !== 0 ? ((val - prior) / Math.abs(prior)) * 100 : null
EdgeYoy(val, prior) ==
    IF prior # 0 THEN Frac((val - prior) * 100, Abs(prior)) ELSE NullPct

\* yoyPct of a node: prior !== 0 ? ((value - prior) / prior) * 100 : null
NodeYoy(value, prior) ==
    IF prior # 0 THEN Frac((value - prior) * 100, prior) ELSE NullPct

(* ------------------------------- inputs ------------------------------- *)

\* A number cell holding the integer k.
N(k) == Num(k * Unit)

\* A text cell.
TA == Str(<<"A">>)
TB == Str(<<"B">>)
TC == Str(<<"C">>)

\* The rows an input range is drawn from: a header row; numeric rows with
\* positive, zero and negative amounts and priors; amounts typed as text with
\* either decimal separator and with white space; a range of three columns;
\* boolean, unparsable and empty amount cells; labels with surrounding white
\* space; numeric labels; an empty label; a row that lacks its target.
RowSet ==
    { <<Str(<<"S", "o", "u", "r", "c", "e">>), Str(<<"T", "a", "r", "g", "e", "t">>),
        Str(<<"A", "m", "o", "u", "n", "t">>), Str(<<"P", "r", "i", "o", "r">>)>>,
      <<TA, TB, N(100), N(90)>>,
      <<TB, TC, N(60), N(0)>>,
      <<TA, TB, N(-100), N(-50)>>,
      <<TA, TC, N(0), N(50)>>,
      <<TC, TB, N(-60), N(20)>>,
      <<TA, TB, Str(<<"1", ",", "5">>), Str(<<"1", ".", "5">>)>>,
      <<Str(<<" ", "A">>), Str(<<"B", " ">>), Str(<<"1", " ", "0">>), Undef>>,
      <<TA, TB, Bool(TRUE), Str(<<"x">>)>>,
      <<N(7), TC, Str(<<>>), Str(<<>>)>>,
      <<Str(<<>>), TB, N(5), N(5)>>,
      <<N(0), TB, N(5), N(5)>>,
      <<TA, Undef, Undef, Undef>> }

\* The ranges of at most MaxRows rows.
Inputs == UNION {[1..n -> RowSet] : n \in 0..MaxRows}

\* Rows about the sign of the flow and about the labels: positive, zero and
\* negative amounts, an amount below the link floor (0.0005), a label that
\* reads like the id of B's loss node, and labels that hold a cost keyword
\* (Tax) and a profit keyword (Net).
FlowRowSet ==
    { <<TA, TB, N(100), N(90)>>,
      <<TA, TB, N(-100), N(-50)>>,
      <<TA, TB, N(0), N(0)>>,
      <<TA, TB, Num(5), N(0)>>,
      <<TC, TB, N(-60), N(20)>>,
      <<TB, TC, N(40), N(40)>>,
      <<TB, TC, N(-40), N(40)>>,
      <<Str(<<"_", "_", "l", "o", "s", "s", "_", "_", "B">>), TC, N(5), N(5)>>,
      <<TB, Str(<<"T", "a", "x">>), N(60), N(0)>>,
      <<Str(<<"N", "e", "t">>), TC, N(-30), N(10)>> }

FlowInputs == UNION {[1..n -> FlowRowSet] : n \in 0..MaxRows}

(* --------------------------- the parser's steps ----------------------- *)

\* if (!row[0] || !row[1]) continue;
SkipRow(row) == ~Truthy(row[1]) \/ ~Truthy(row[2])

srcIdOf(row) == Trim(StringOf(row[1]))
tgtIdOf(row) == Trim(StringOf(row[2]))
valOf(row) == parseNum(row[3])
priorOf(row) == parseNum(PriorCell(row))

HasKey(nt, id) == \E k \in 1..Len(nt) : nt[k].id = id

LOSS_PREFIX == <<"_", "_", "l", "o", "s", "s", "_", "_">>

lossIdOf(tgtId) == LOSS_PREFIX \o tgtId

\* absVal || 0.001, in ten-thousandths.
MIN_LINK_VALUE == 10

FlooredValue(absVal) == IF absVal = 0 THEN MIN_LINK_VALUE ELSE absVal

\* A push that adds the amounts to an earlier entry of the same pair.
PushLinkMetaMerged(lm, entry) ==
    IF \E k \in 1..Len(lm) :
          lm[k].sourceId = entry.sourceId /\ lm[k].targetId = entry.targetId
    THEN [k \in 1..Len(lm) |->
             IF lm[k].sourceId = entry.sourceId /\ lm[k].targetId = entry.targetId
             THEN [lm[k] EXCEPT !.value = @ + entry.value, !.prior = @ + entry.prior]
             ELSE lm[k]]
    ELSE Append(lm, entry)

\* linkMeta.push({...})
PushLinkMeta(lm, entry) == Append(lm, entry)

\* sankeyLinks.push({...})
PushSankeyLink(sl, entry) == Append(sl, entry)

(* loss-routing parser, src/unnamed/part_000 *)

touchLoss(nt, id) ==
    IF HasKey(nt, id) THEN nt ELSE Append(nt, [id |-> id, value |-> 0, prior |-> 0])

\* nodeTotals.get(id)!.value += v; nodeTotals.get(id)!.prior += p
AddLoss(nt, id, v, p) ==
    [k \in 1..Len(nt) |->
        IF nt[k].id = id
        THEN [nt[k] EXCEPT !.value = @ + v, !.prior = @ + p]
        ELSE nt[k]]

\* The id of the node the row's flow ends in.
LossTarget(row) ==
    IF valOf(row) < 0 THEN lossIdOf(tgtIdOf(row)) ELSE tgtIdOf(row)

\* The totals of the loss-routing parser without touch(lossId).
LossTotalsLossUntouched(nt, row) ==
    LET srcId == srcIdOf(row)
        tgtId == tgtIdOf(row)
        absVal == Abs(valOf(row))
        absPrior == Abs(priorOf(row))
        touched == touchLoss(touchLoss(nt, srcId), tgtId)
        out == AddLoss(touched, srcId, absVal, absPrior)
    IN IF valOf(row) < 0
       THEN AddLoss(out, lossIdOf(tgtId), absVal, absPrior)
       ELSE AddLoss(out, tgtId, absVal, absPrior)

\* The totals of the loss-routing parser that also credit the declared
\* target of a negative row.
LossTotalsTargetCredited(nt, row) ==
    LET srcId == srcIdOf(row)
        tgtId == tgtIdOf(row)
        absVal == Abs(valOf(row))
        absPrior == Abs(priorOf(row))
        touched == touchLoss(touchLoss(nt, srcId), tgtId)
        out == AddLoss(touched, srcId, absVal, absPrior)
        in == AddLoss(out, tgtId, absVal, absPrior)
    IN IF valOf(row) < 0
       THEN AddLoss(touchLoss(in, lossIdOf(tgtId)), lossIdOf(tgtId), absVal, absPrior)
       ELSE in

LossTotals(nt, row) ==
    LET srcId == srcIdOf(row)
        tgtId == tgtIdOf(row)
        absVal == Abs(valOf(row))
        absPrior == Abs(priorOf(row))
        touched == touchLoss(touchLoss(nt, srcId), tgtId)
        out == AddLoss(touched, srcId, absVal, absPrior)
    IN IF valOf(row) < 0
       THEN AddLoss(touchLoss(out, lossIdOf(tgtId)), lossIdOf(tgtId), absVal, absPrior)
       ELSE AddLoss(out, tgtId, absVal, absPrior)

LossLinkMeta(row) ==
    [sourceId |-> srcIdOf(row),
     targetId |-> LossTarget(row),
     value |-> Abs(valOf(row)),
     prior |-> Abs(priorOf(row)),
     yoyPct |-> EdgeYoy(valOf(row), priorOf(row)),
     linkColor |-> IF valOf(row) < 0 THEN COLORS.cost.link
                   ELSE COLORS[classifyId(tgtIdOf(row))].link]

LossSankeyLink(row) ==
    [source |-> srcIdOf(row),
     target |-> LossTarget(row),
     value |-> FlooredValue(Abs(valOf(row)))]

LossNodeMeta(totals) ==
    LET isLoss == StartsWith(totals.id, LOSS_PREFIX)
        name == IF isLoss
                THEN SubSeq(totals.id, Len(LOSS_PREFIX) + 1, Len(totals.id))
                     \o <<" ", "(", "l", "o", "s", "s", ")">>
                ELSE totals.id
        cls == IF isLoss THEN "cost" ELSE classifyId(totals.id)
    IN [id |-> totals.id,
        name |-> name,
        totalValue |-> totals.value,
        totalPrior |-> totals.prior,
        yoyPct |-> NodeYoy(totals.value, totals.prior),
        fillColor |-> COLORS[cls].fill,
        accentColor |-> COLORS[cls].accent]

(* sign-as-category parser, src/unnamed/part_001 *)

touchSign(nt, id) ==
    IF HasKey(nt, id) THEN nt
    ELSE Append(nt, [id |-> id, inVal |-> 0, outVal |-> 0, inPrior |-> 0,
                     outPrior |-> 0, rawSum |-> 0, rawOutSum |-> 0])

SignTotals(nt, row) ==
    LET srcId == srcIdOf(row)
        tgtId == tgtIdOf(row)
        val == valOf(row)
        absVal == Abs(val)
        absPrior == Abs(priorOf(row))
        touched == touchSign(touchSign(nt, srcId), tgtId)
        out == [k \in 1..Len(touched) |->
                   IF touched[k].id = srcId
                   THEN [touched[k] EXCEPT !.outVal = @ + absVal,
                                           !.outPrior = @ + absPrior,
                                           !.rawOutSum = @ + val]
                   ELSE touched[k]]
    IN [k \in 1..Len(out) |->
           IF out[k].id = tgtId
           THEN [out[k] EXCEPT !.inVal = @ + absVal,
                               !.inPrior = @ + absPrior,
                               !.rawSum = @ + val]
           ELSE out[k]]

SignLinkMeta(row) ==
    [sourceId |-> srcIdOf(row),
     targetId |-> tgtIdOf(row),
     value |-> Abs(valOf(row)),
     prior |-> Abs(priorOf(row)),
     yoyPct |-> EdgeYoy(valOf(row), priorOf(row)),
     linkColor |-> COLORS[IF valOf(row) < 0 THEN "cost" ELSE "profit"].link]

SignSankeyLink(row) ==
    [source |-> srcIdOf(row),
     target |-> tgtIdOf(row),
     value |-> FlooredValue(Abs(valOf(row)))]

\* A node value that takes the inflow alone.
SignNodeValueInflowOnly(totals) == totals.inVal

SignNodeValue(totals) == Max(totals.inVal, totals.outVal)

SignNodePrior(totals) == Max(totals.inPrior, totals.outPrior)

\* A node of the sign-as-category parser coloured by its label's keywords.
SignNodeMetaByKeyword(totals) ==
    LET cls == classifyId(totals.id)
    IN [id |-> totals.id,
        name |-> totals.id,
        totalValue |-> SignNodeValue(totals),
        totalPrior |-> SignNodePrior(totals),
        yoyPct |-> NodeYoy(SignNodeValue(totals), SignNodePrior(totals)),
        fillColor |-> COLORS[cls].fill,
        accentColor |-> COLORS[cls].accent]

SignNodeMeta(totals) ==
    LET cls == IF totals.inVal > 0
               THEN (IF totals.rawSum < 0 THEN "cost" ELSE "profit")
               ELSE IF totals.outVal > 0
               THEN (IF totals.rawOutSum < 0 THEN "cost" ELSE "profit")
               ELSE "profit"
    IN [id |-> totals.id,
        name |-> totals.id,
        totalValue |-> SignNodeValue(totals),
        totalPrior |-> SignNodePrior(totals),
        yoyPct |-> NodeYoy(SignNodeValue(totals), SignNodePrior(totals)),
        fillColor |-> COLORS[cls].fill,
        accentColor |-> COLORS[cls].accent]

(* ------------------------------- behaviour ---------------------------- *)

\* A row-count check that lets a range of one row through.
TooFewRowsBelowOne(isNull, values) == isNull \/ Len(values) < 1

\* if (!rawValues || rawValues.length < 2) throw
TooFewRows(isNull, values) == isNull \/ Len(values) < 2

\* const rows = hasHeader ? rawValues.slice(1) : rawValues
DataRows(values) == IF HasHeader(values[1]) THEN Tail(values) ELSE values

(* ------------------------------ the chart ----------------------------- *)

(* The SankeyChart component in its two versions: the current one,         *)
(* src/src/taskpane/SankeyChart.tsx, which records drags in dragState and  *)
(* calls d3Sankey().update(graph), and the component listed in             *)
(* src/src/taskpane/Taskpane.tsx from line 275, which clamps the drag and  *)
(* keeps no record of it.  Coordinates are whole pixels.  d3-sankey is a   *)
(* library outside the repository: its layout is modelled from section 4.2 *)
(* of the specification (rank by longest path, height in proportion to     *)
(* max(inflow, outflow), ports stacked along the node), with the nodes of  *)
(* a rank in the order of sankeyNodes.                                     *)

\* const NODE_WIDTH, const NODE_PAD
NODE_WIDTH == 16

NODE_PAD == 14

\* const MARGIN of each component
MARGIN(c) ==
    IF c = "current"
    THEN [top |-> 100, right |-> 200, bottom |-> 100, left |-> 200]
    ELSE [top |-> 24, right |-> 200, bottom |-> 24, left |-> 200]

\* const CHART_W, const CHART_H of the task pane, and the default of height
CHART_W == 860

CHART_H == 800

DEFAULT_HEIGHT == 520

\* const W = width - MARGIN.left - MARGIN.right
W(c, p) == p.width - MARGIN(c).left - MARGIN(c).right

\* const H = height - MARGIN.top - MARGIN.bottom
H(c, p) == p.height - MARGIN(c).top - MARGIN(c).bottom

\* The props the task pane passes first: scale "B", decimals 1, values shown.
InitialProps ==
    [scale |-> "B", displayMode |-> "Values", decimals |-> 1,
     width |-> CHART_W, height |-> CHART_H]

\* The props of the renders that are followed: the first ones, and one change
\* each of scale, of decimals with displayMode, and of the canvas height.
PropsSet ==
    { InitialProps,
      [InitialProps EXCEPT !.scale = "M"],
      [InitialProps EXCEPT !.decimals = 2, !.displayMode = "YOY"],
      [InitialProps EXCEPT !.height = DEFAULT_HEIGHT] }

\* The dependencies of the effect: [data, scale, displayMode, decimals, width,
\* height] in the current component, [data, scale, width, height] in the
\* embedded one.
EffectDeps(c, p) ==
    IF c = "current"
    THEN <<p.scale, p.displayMode, p.decimals, p.width, p.height>>
    ELSE <<p.scale, p.width, p.height>>

\* dragState.current = {}
NoDrags == [id \in {} |-> [x0 |-> 0, y0 |-> 0]]

SetMax(S) == CHOOSE x \in S : \A y \in S : y <= x

RECURSIVE SeqSum(_)
SeqSum(s) == IF s = <<>> THEN 0 ELSE Head(s) + SeqSum(Tail(s))

(* layout(graph) of d3-sankey, after section 4.2 of the specification *)

\* Sum of the values of the links that have the node at one end.
LinkSum(ls, id, end) ==
    SeqSum([i \in 1..Len(ls) |-> IF ls[i][end] = id THEN ls[i].value ELSE 0])

\* node.value: the larger of the outflow and the inflow.
NodeValue(ls, id) == Max(LinkSum(ls, id, "source"), LinkSum(ls, id, "target"))

\* The rank of a node: the longest path from a node without incoming links.
RECURSIVE Rank(_, _)
Rank(ls, id) ==
    LET into == {i \in 1..Len(ls) : ls[i].target = id}
    IN  IF into = {} THEN 0
        ELSE 1 + SetMax({Rank(ls, ls[i].source) : i \in into})

\* The scale of the heights, pixels per unit of value as a fraction: that of
\* the rank that has the least room for its values.
HeightScale(rank, value, h) ==
    LET ranks == {rank[k] : k \in DOMAIN rank}
        room(r) == h - (Cardinality({k \in DOMAIN rank : rank[k] = r}) - 1) * NODE_PAD
        total(r) == SeqSum([k \in DOMAIN rank |-> IF rank[k] = r THEN value[k] ELSE 0])
        tight == CHOOSE r \in ranks :
                    \A q \in ranks : /\ room(r) * total(q) <= room(q) * total(r)
                                     /\ (room(r) * total(q) = room(q) * total(r) => r <= q)
    IN  [num |-> room(tight), den |-> total(tight)]

Scaled(v, ky) == (v * ky.num) \div ky.den

\* The members of a set of links in ascending order of a key, ties by index.
RECURSIVE SortBy(_, _)
SortBy(S, key) ==
    IF S = {} THEN <<>>
    ELSE LET m == CHOOSE i \in S :
                     \A j \in S : key[i] < key[j] \/ (key[i] = key[j] /\ i <= j)
         IN  <<m>> \o SortBy(S \ {m}, key)

NodeOf(nodes, id) == nodes[CHOOSE k \in 1..Len(nodes) : nodes[k].id = id]

\* Sum of the widths of the links that come before link i in an order.
WidthBefore(links, order, i) ==
    LET at == CHOOSE k \in 1..Len(order) : order[k] = i
    IN  SeqSum([k \in 1..(at - 1) |-> links[order[k]].width])

\* A drag handler that moves the node after the dragged one along with it.
DragCurrentPushesNext(nodes, k, dx, dy) ==
    LET next == (k % Len(nodes)) + 1
    IN  [j \in 1..Len(nodes) |->
            IF j = k \/ j = next
            THEN [nodes[j] EXCEPT !.x0 = @ + dx, !.x1 = @ + dx,
                                  !.y0 = @ + dy, !.y1 = @ + dy]
            ELSE nodes[j]]

\* A drag handler that leaves y1 where it was.
DragCurrentTopOnly(nodes, k, dx, dy) ==
    [nodes EXCEPT ![k] = [@ EXCEPT !.x0 = @ + dx, !.x1 = nodes[k].x1 + dx,
                                   !.y0 = @ + dy]]

\* d3Sankey().update(graph), which is computeLinkBreadths: along each node its
\* sourceLinks, and its targetLinks, are stacked from the node's y0 in their
\* order; a link's y0 and y1 are the centres of its two ends.
update(nodes, links) ==
    [i \in 1..Len(links) |->
        LET s == NodeOf(nodes, links[i].source)
            t == NodeOf(nodes, links[i].target)
        IN  [links[i] EXCEPT
                !.y0 = s.y0 + WidthBefore(links, s.sourceLinks, i)
                       + links[i].width \div 2,
                !.y1 = t.y0 + WidthBefore(links, t.targetLinks, i)
                       + links[i].width \div 2]]

\* The tops of the nodes: the nodes of a rank stacked from 0 in their order,
\* NODE_PAD apart.
NodeTops(rank, height) ==
    [k \in DOMAIN rank |->
        SeqSum([j \in 1..(k - 1) |->
                   IF rank[j] = rank[k] THEN height[j] + NODE_PAD ELSE 0])]

\* The laid-out graph, given each node's rank, value, height and top and the
\* scale ky of the heights.
LayoutGraph(ns, ls, w, rank, value, ky, height, top) ==
    LET K == 1..Len(ns)
        maxRank == SetMax({rank[k] : k \in K})
        left(k) == IF maxRank = 0 THEN 0
                   ELSE (rank[k] * (w - NODE_WIDTH)) \div maxRank
        targetTop == [i \in 1..Len(ls) |->
                         top[CHOOSE k \in K : ns[k].id = ls[i].target]]
        sourceTop == [i \in 1..Len(ls) |->
                         top[CHOOSE k \in K : ns[k].id = ls[i].source]]
        nodes == [k \in K |->
                    [id |-> ns[k].id, index |-> k, depth |-> rank[k],
                     value |-> value[k],
                     x0 |-> left(k), x1 |-> left(k) + NODE_WIDTH,
                     y0 |-> top[k], y1 |-> top[k] + height[k],
                     sourceLinks |->
                         SortBy({i \in 1..Len(ls) : ls[i].source = ns[k].id}, targetTop),
                     targetLinks |->
                         SortBy({i \in 1..Len(ls) : ls[i].target = ns[k].id}, sourceTop)]]
        links == [i \in 1..Len(ls) |->
                    [index |-> i, source |-> ls[i].source, target |-> ls[i].target,
                     value |-> ls[i].value, width |-> Scaled(ls[i].value, ky),
                     y0 |-> 0, y1 |-> 0]]
    IN  [nodes |-> nodes, links |-> update(nodes, links)]

\* The laid-out graph, given each node's rank and value and the scale ky.
LayoutScaled(ns, ls, w, rank, value, ky, height) ==
    LayoutGraph(ns, ls, w, rank, value, ky, height, NodeTops(rank, height))

\* The laid-out graph, given each node's rank and value.
LayoutRanked(ns, ls, w, rank, value, ky) ==
    LayoutScaled(ns, ls, w, rank, value, ky,
                 [k \in DOMAIN value |-> Scaled(value[k], ky)])

\* layout({nodes, links}) with nodeWidth(NODE_WIDTH), nodePadding(NODE_PAD) and
\* extent([[0, 0], [w, h]]), on copies of the parser's nodes and links.
LayoutValued(ns, ls, w, h, rank, value) ==
    LayoutRanked(ns, ls, w, rank, value, HeightScale(rank, value, h))

layout(ns, ls, w, h) ==
    LayoutValued(ns, ls, w, h,
                 [k \in 1..Len(ns) |-> Rank(ls, ns[k].id)],
                 [k \in 1..Len(ns) |-> NodeValue(ls, ns[k].id)])

\* graph.nodes.forEach: a node with a saved position is moved to it and keeps
\* its width and height.
ReapplyDragState(nodes, saved) ==
    [k \in 1..Len(nodes) |->
        IF nodes[k].id \in DOMAIN saved
        THEN LET nodeW == nodes[k].x1 - nodes[k].x0
                 nodeH == nodes[k].y1 - nodes[k].y0
                 at == saved[nodes[k].id]
             IN  [nodes[k] EXCEPT !.x0 = at.x0, !.x1 = at.x0 + nodeW,
                                  !.y0 = at.y0, !.y1 = at.y0 + nodeH]
        ELSE nodes[k]]

\* The graph the effect draws: the layout, and in the current component the
\* saved positions put back and, when there are any, the links laid out again.
EffectGraph(c, p, ns, ls, saved) ==
    LET graph == layout(ns, ls, W(c, p), H(c, p))
    IN  IF c = "current"
        THEN LET nodes == ReapplyDragState(graph.nodes, saved)
             IN  [nodes |-> nodes,
                  links |-> IF DOMAIN saved # {} THEN update(nodes, graph.links)
                            ELSE graph.links]
        ELSE graph

\* .on("drag") of the current component: the node moves by (dx, dy), unclamped.
DragCurrent(nodes, k, dx, dy) ==
    LET nodeH == nodes[k].y1 - nodes[k].y0
        nodeW == nodes[k].x1 - nodes[k].x0
    IN  [nodes EXCEPT ![k] = [@ EXCEPT !.x0 = @ + dx, !.x1 = (nodes[k].x0 + dx) + nodeW,
                                       !.y0 = @ + dy, !.y1 = (nodes[k].y0 + dy) + nodeH]]

\* A record of drags that keeps the first position saved for a node.
SaveDragStateFirstOnly(saved, d) ==
    IF d.id \in DOMAIN saved THEN saved
    ELSE [id \in DOMAIN saved \cup {d.id} |->
             IF id = d.id THEN [x0 |-> d.x0, y0 |-> d.y0] ELSE saved[id]]

\* dragState.current[d.id] = { x0: d.x0, y0: d.y0 }
SaveDragState(saved, d) ==
    [id \in DOMAIN saved \cup {d.id} |->
        IF id = d.id THEN [x0 |-> d.x0, y0 |-> d.y0] ELSE saved[id]]

\* .on("drag") of the embedded component: the node moves by dy within [0, h - nodeH].
DragEmbedded(nodes, k, dy, h) ==
    LET nodeH == nodes[k].y1 - nodes[k].y0
        y0 == Max(0, IF h - nodeH <= nodes[k].y0 + dy THEN h - nodeH
                     ELSE nodes[k].y0 + dy)
    IN  [nodes EXCEPT ![k] = [@ EXCEPT !.y0 = y0, !.y1 = y0 + nodeH]]

(* ----------------------------- formatValue ---------------------------- *)

(* A number handed to formatValue is held as a sign, whole units and        *)
(* ten-thousandths, so that amounts of billions are exact.  The scales      *)
(* divide by powers of ten, so the quotient is the same digits with the     *)
(* point moved; toFixed rounds the digits.  JavaScript rounds the double    *)
(* nearest to the quotient: where the quotient lies exactly half way        *)
(* between two renderings and is no binary fraction, the double lies on     *)
(* either side of it, and both outcomes are followed (the argument up).     *)

Big(neg, units, frac) == [neg |-> neg, units |-> units, frac |-> frac]

\* The power of ten a scale divides by: K 1_000, M 1_000_000, B 1_000_000_000.
ScaleShift(scale) ==
    CASE scale = "K" -> 3
      [] scale = "M" -> 6
      [] scale = "B" -> 9
      [] OTHER -> 0

\* let suffix
Suffix(scale) ==
    CASE scale = "K" -> <<"K">>
      [] scale = "M" -> <<"M">>
      [] scale = "B" -> <<"B">>
      [] OTHER -> <<>>

Zeros(k) == [i \in 1..k |-> "0"]

\* The decimal digits of |value| / 10^shift: those before the point (one at
\* least) and those after it.
ScaledDigits(value, shift) ==
    LET f == value.frac
        all == Zeros(Max(0, shift + 1 - Len(NatToStr(value.units))))
               \o NatToStr(value.units)
        cut == Len(all) - shift
    IN  [int |-> SubSeq(all, 1, cut),
         frac |-> SubSeq(all, cut + 1, Len(all))
                  \o <<Digits[(f \div 1000) + 1], Digits[((f \div 100) % 10) + 1],
                       Digits[((f \div 10) % 10) + 1], Digits[(f % 10) + 1]>>]

\* A digit string plus one.
RECURSIVE Increment(_)
Increment(s) ==
    IF s = <<>> THEN <<"1">>
    ELSE IF s[Len(s)] = "9" THEN Append(Increment(SubSeq(s, 1, Len(s) - 1)), "0")
    ELSE Append(SubSeq(s, 1, Len(s) - 1), Digits[DigitVal(s[Len(s)]) + 2])

\* The digits after the d-th fraction digit are exactly a half of its unit.
IsTie(digits, d) ==
    StripZeros(SubSeq(digits.frac, d + 1, Len(digits.frac))) = <<"5">>

\* The fraction is a binary fraction with d + 1 digits: the double holds it
\* exactly.
BinaryFraction(digits, d) ==
    StripZeros(digits.frac)
        \in CASE d = 0 -> {<<"5">>}
              [] d = 1 -> {<<"2", "5">>, <<"7", "5">>}
              [] OTHER -> {<<"1", "2", "5">>, <<"3", "7", "5">>,
                           <<"6", "2", "5">>, <<"8", "7", "5">>}

\* The sides of a half-way point the double of the quotient can lie on: up
\* (or on it, where toFixed takes the larger) or down.
TieSides(value, scale, d) ==
    LET digits == ScaledDigits(value, ScaleShift(scale))
    IN  IF IsTie(digits, d) /\ ~BinaryFraction(digits, d) THEN BOOLEAN ELSE {TRUE}

\* Number.prototype.toFixed(d) of the number with these digits, d in 0..2.
toFixed(neg, digits, d, up) ==
    LET kept == digits.int \o SubSeq(digits.frac, 1, d)
        rest == SubSeq(digits.frac, d + 1, Len(digits.frac))
        roundsUp == IF IsTie(digits, d) THEN up ELSE DigitVal(rest[1]) >= 5
        rounded == IF roundsUp THEN Increment(kept) ELSE kept
        whole == Len(rounded) - d
    IN  (IF neg THEN <<"-">> ELSE <<>>)
        \o SubSeq(rounded, 1, whole)
        \o (IF d = 0 THEN <<>> ELSE <<".">> \o SubSeq(rounded, whole + 1, Len(rounded)))

\* String.prototype.replace(".", ","): the first point becomes a comma.
RECURSIVE ReplacePoint(_)
ReplacePoint(s) ==
    IF s = <<>> THEN <<>>
    ELSE IF Head(s) = "." THEN <<",">> \o Tail(s)
    ELSE <<Head(s)>> \o ReplacePoint(Tail(s))

\* formatValue of src/unnamed/part_001
formatValue(value, scale, decimals, up) ==
    ReplacePoint(toFixed(value.neg, ScaledDigits(value, ScaleShift(scale)),
                         decimals, up))
    \o Suffix(scale)

\* formatValue of src/unnamed/part_000: it has no parameter decimals and
\* renders one decimal; a third argument is ignored.
formatValueLoss(value, scale, up) ==
    ReplacePoint(toFixed(value.neg, ScaledDigits(value, ScaleShift(scale)), 1, up))
    \o Suffix(scale)

\* No call of formatValue has returned.
NotFormatted == [done |-> FALSE, text |-> <<>>]

\* No call of formatValue is followed.
FormatIdle ==
    /\ formatArgs = [value |-> Big(FALSE, 0, 0), scale |-> "Raw", decimals |-> 1]
    /\ formatted = NotFormatted

(* ---------------------------- the task pane --------------------------- *)

\* useState<GraphData | null>(null)
NoGraph ==
    [null |-> TRUE, nodeMeta |-> <<>>, linkMeta |-> <<>>,
     sankeyNodes |-> <<>>, sankeyLinks |-> <<>>]

\* useState<string | null>(null)
NoError == [null |-> TRUE, message |-> ""]

\* The task pane before it is used: no graph, no error, not loading.
PaneIdle ==
    /\ graphData = NoGraph
    /\ error = NoError
    /\ loading = FALSE
    /\ loadPc = "idle"
    /\ hostScript = <<>>
    /\ exporting = FALSE

\* The chart before its first render.
ChartIdle ==
    /\ chart = "current"
    /\ props = InitialProps
    /\ rendered = FALSE
    /\ gNodes = <<>>
    /\ gLinks = <<>>
    /\ dragState = NoDrags
    /\ drags = 0

Init ==
    /\ parser \in {"loss", "sign"}
    /\ rawNull \in BOOLEAN
    /\ rawValues \in (IF rawNull THEN {<<>>} ELSE Inputs)
    /\ pc = "start"
    /\ hasHeader = FALSE
    /\ rows = <<>>
    /\ idx = 1
    /\ nodeTotals = <<>>
    /\ linkMeta = <<>>
    /\ sankeyLinks = <<>>
    /\ nodeMeta = <<>>
    /\ sankeyNodes = <<>>
    /\ ChartIdle
    /\ FormatIdle
    /\ PaneIdle

\* The call's entry: the row-count check and the header detection.
Validate ==
    /\ pc = "start"
    /\ IF TooFewRows(rawNull, rawValues)
       THEN /\ pc' = "error"
            /\ UNCHANGED <<hasHeader, rows>>
       ELSE /\ pc' = "loop"
            /\ hasHeader' = HasHeader(rawValues[1])
            /\ rows' = DataRows(rawValues)
    /\ UNCHANGED <<parser, rawNull, rawValues, idx, nodeTotals, linkMeta,
                   sankeyLinks, nodeMeta, sankeyNodes>>
    /\ UNCHANGED <<chartVars, formatVars, paneVars>>

\* One iteration of for (const row of rows) in the loss-routing parser.
LoopLoss ==
    /\ pc = "loop"
    /\ parser = "loss"
    /\ idx <= Len(rows)
    /\ IF SkipRow(rows[idx])
       THEN UNCHANGED <<nodeTotals, linkMeta, sankeyLinks>>
       ELSE /\ nodeTotals' = LossTotals(nodeTotals, rows[idx])
            /\ linkMeta' = PushLinkMeta(linkMeta, LossLinkMeta(rows[idx]))
            /\ sankeyLinks' = PushSankeyLink(sankeyLinks, LossSankeyLink(rows[idx]))
    /\ idx' = idx + 1
    /\ UNCHANGED <<parser, rawNull, rawValues, pc, hasHeader, rows, nodeMeta,
                   sankeyNodes>>
    /\ UNCHANGED <<chartVars, formatVars, paneVars>>

\* One iteration of for (const row of rows) in the sign-as-category parser.
LoopSign ==
    /\ pc = "loop"
    /\ parser = "sign"
    /\ idx <= Len(rows)
    /\ IF SkipRow(rows[idx])
       THEN UNCHANGED <<nodeTotals, linkMeta, sankeyLinks>>
       ELSE /\ nodeTotals' = SignTotals(nodeTotals, rows[idx])
            /\ linkMeta' = PushLinkMeta(linkMeta, SignLinkMeta(rows[idx]))
            /\ sankeyLinks' = PushSankeyLink(sankeyLinks, SignSankeyLink(rows[idx]))
    /\ idx' = idx + 1
    /\ UNCHANGED <<parser, rawNull, rawValues, pc, hasHeader, rows, nodeMeta,
                   sankeyNodes>>
    /\ UNCHANGED <<chartVars, formatVars, paneVars>>

\* Array.from(nodeTotals.keys()).map((id) => ({ id }))
NodeIds(nt) == [k \in 1..Len(nt) |-> [id |-> nt[k].id]]

\* The NodeMeta map and the returned GraphData of the loss-routing parser.
BuildLoss ==
    /\ pc = "loop"
    /\ parser = "loss"
    /\ idx > Len(rows)
    /\ nodeMeta' = [k \in 1..Len(nodeTotals) |-> LossNodeMeta(nodeTotals[k])]
    /\ sankeyNodes' = NodeIds(nodeTotals)
    /\ pc' = "done"
    /\ UNCHANGED <<parser, rawNull, rawValues, hasHeader, rows, idx, nodeTotals,
                   linkMeta, sankeyLinks>>
    /\ UNCHANGED <<chartVars, formatVars, paneVars>>

\* The NodeMeta map and the returned GraphData of the sign-as-category parser.
BuildSign ==
    /\ pc = "loop"
    /\ parser = "sign"
    /\ idx > Len(rows)
    /\ nodeMeta' = [k \in 1..Len(nodeTotals) |-> SignNodeMeta(nodeTotals[k])]
    /\ sankeyNodes' = NodeIds(nodeTotals)
    /\ pc' = "done"
    /\ UNCHANGED <<parser, rawNull, rawValues, hasHeader, rows, idx, nodeTotals,
                   linkMeta, sankeyLinks>>
    /\ UNCHANGED <<chartVars, formatVars, paneVars>>

Next == Validate \/ LoopLoss \/ LoopSign \/ BuildLoss \/ BuildSign

Spec == Init /\ [][Next]_vars

\* The same calls on the ranges of FlowInputs.
InitFlows ==
    /\ parser \in {"loss", "sign"}
    /\ rawNull = FALSE
    /\ rawValues \in FlowInputs
    /\ pc = "start"
    /\ hasHeader = FALSE
    /\ rows = <<>>
    /\ idx = 1
    /\ nodeTotals = <<>>
    /\ linkMeta = <<>>
    /\ sankeyLinks = <<>>
    /\ nodeMeta = <<>>
    /\ sankeyNodes = <<>>
    /\ ChartIdle
    /\ FormatIdle
    /\ PaneIdle

SpecFlows == InitFlows /\ [][Next]_vars

(* ------------------------- the chart's behaviour ---------------------- *)

\* The ranges the chart is followed on, each with a header row: a chain
\* A -> B -> C, and a fan A -> B, C -> B, A -> C with a negative and a zero
\* amount.  They hold no circular link, on which d3-sankey throws.
ChartInputs ==
    LET header == <<Str(<<"S">>), Str(<<"T">>), Str(<<"A">>), Str(<<"P">>)>>
    IN  { <<header, <<TA, TB, N(100), N(90)>>, <<TB, TC, N(60), N(0)>>>>,
          <<header, <<TA, TB, N(100), N(90)>>, <<TC, TB, N(-60), N(20)>>,
            <<TA, TC, N(0), N(50)>>>> }

\* The movements event.dx, event.dy of the drag events that are followed: far
\* up, a little down and right, far down.
DragEvents ==
    { [dx |-> 0, dy |-> -700], [dx |-> 30, dy |-> 40], [dx |-> 0, dy |-> 700] }

InitChart ==
    /\ parser \in {"loss", "sign"}
    /\ rawNull = FALSE
    /\ rawValues \in ChartInputs
    /\ pc = "start"
    /\ hasHeader = FALSE
    /\ rows = <<>>
    /\ idx = 1
    /\ nodeTotals = <<>>
    /\ linkMeta = <<>>
    /\ sankeyLinks = <<>>
    /\ nodeMeta = <<>>
    /\ sankeyNodes = <<>>
    /\ chart \in {"current", "embedded"}
    /\ props = InitialProps
    /\ rendered = FALSE
    /\ gNodes = <<>>
    /\ gLinks = <<>>
    /\ dragState = NoDrags
    /\ drags = 0
    /\ FormatIdle
    /\ PaneIdle

\* The effect's first run, once the task pane holds the parsed GraphData.
Mount ==
    /\ pc = "done"
    /\ ~rendered
    /\ Len(sankeyNodes) # 0
    /\ LET graph == EffectGraph(chart, props, sankeyNodes, sankeyLinks, dragState)
       IN  /\ gNodes' = graph.nodes
           /\ gLinks' = graph.links
    /\ rendered' = TRUE
    /\ UNCHANGED <<parserVars, formatVars, paneVars, chart, props, dragState, drags>>

\* A change of the props; the effect runs again when one of its dependencies
\* changed.
Rerender ==
    /\ rendered
    /\ \E p \in PropsSet \ {props} :
          /\ props' = p
          /\ IF EffectDeps(chart, p) # EffectDeps(chart, props)
             THEN LET graph == EffectGraph(chart, p, sankeyNodes, sankeyLinks, dragState)
                  IN  /\ gNodes' = graph.nodes
                      /\ gLinks' = graph.links
             ELSE UNCHANGED <<gNodes, gLinks>>
    /\ UNCHANGED <<parserVars, formatVars, paneVars, chart, rendered, dragState, drags>>

\* One drag event on node k in the current component, handled to its end.  An
\* event is handled between the steps of loadData, never inside the
\* synchronous parse.
OnDragCurrent ==
    /\ rendered
    /\ loadPc # "parsing"
    /\ chart = "current"
    /\ drags < MaxDrags
    /\ \E k \in 1..Len(gNodes), event \in DragEvents :
          LET nodes == DragCurrent(gNodes, k, event.dx, event.dy)
          IN  /\ gNodes' = nodes
              /\ dragState' = SaveDragState(dragState, nodes[k])
              /\ gLinks' = update(nodes, gLinks)
    /\ drags' = drags + 1
    /\ UNCHANGED <<parserVars, formatVars, paneVars, chart, props, rendered>>

\* One drag event on node k in the embedded component, handled to its end.
OnDragEmbedded ==
    /\ rendered
    /\ loadPc # "parsing"
    /\ chart = "embedded"
    /\ drags < MaxDrags
    /\ \E k \in 1..Len(gNodes), event \in DragEvents :
          gNodes' = DragEmbedded(gNodes, k, event.dy, H(chart, props))
    /\ drags' = drags + 1
    /\ UNCHANGED <<parserVars, formatVars, paneVars, chart, props, rendered, gLinks, dragState>>

NextChart ==
    \/ Validate \/ LoopLoss \/ LoopSign \/ BuildLoss \/ BuildSign
    \/ Mount \/ Rerender \/ OnDragCurrent \/ OnDragEmbedded

SpecChart == InitChart /\ [][NextChart]_vars

(* ----------------------- calls of formatValue ------------------------- *)

\* The values formatted: 0, 1.5 billion, 1234567890, amounts half way between
\* two renderings (1250 and 2500, binary fractions once divided by 1000;
\* 1150 and 0.05, which are not), one whose rounding carries (999.96) and a
\* negative one that rounds to zero (-0.04).
FormatValues ==
    { Big(FALSE, 0, 0), Big(FALSE, 1500000000, 0), Big(FALSE, 1234567890, 0),
      Big(FALSE, 1250, 0), Big(FALSE, 2500, 0), Big(FALSE, 1150, 0),
      Big(FALSE, 0, 500), Big(FALSE, 999, 9600), Big(TRUE, 0, 400) }

\* type ScaleMode, type DecimalMode
ScaleModes == {"Raw", "K", "M", "B"}

DecimalModes == {0, 1, 2}

InitFormat ==
    /\ parser \in {"loss", "sign"}
    /\ rawNull = FALSE
    /\ rawValues = <<>>
    /\ pc = "idle"
    /\ hasHeader = FALSE
    /\ rows = <<>>
    /\ idx = 1
    /\ nodeTotals = <<>>
    /\ linkMeta = <<>>
    /\ sankeyLinks = <<>>
    /\ nodeMeta = <<>>
    /\ sankeyNodes = <<>>
    /\ ChartIdle
    /\ PaneIdle
    /\ formatArgs \in [value : FormatValues, scale : ScaleModes, decimals : DecimalModes]
    /\ formatted = NotFormatted

\* A call formatValue(value, scale, decimals) of the parser's version.
FormatValue ==
    /\ ~formatted.done
    /\ \E up \in TieSides(formatArgs.value, formatArgs.scale,
                          IF parser = "loss" THEN 1 ELSE formatArgs.decimals) :
          formatted' =
              [done |-> TRUE,
               text |-> IF parser = "loss"
                        THEN formatValueLoss(formatArgs.value, formatArgs.scale, up)
                        ELSE formatValue(formatArgs.value, formatArgs.scale,
                                         formatArgs.decimals, up)]
    /\ UNCHANGED <<parserVars, chartVars, paneVars, formatArgs>>

NextFormat == FormatValue

SpecFormat == InitFormat /\ [][NextFormat]_vars

(* ------------------- the task pane: loadData, export ------------------- *)

\* Largest number of loads of a behaviour.
MaxLoads == 2

\* What a failing host call throws: an Error with a message, an Error whose
\* message is the empty string, a value without a message property.
HostErrors ==
    { [hasMessage |-> TRUE, message |-> "The selection could not be read."],
      [hasMessage |-> TRUE, message |-> ""],
      [hasMessage |-> FALSE, message |-> ""] }

\* throw new Error("Select at least 2 rows ...") of parseExcelData
ParseError ==
    [hasMessage |-> TRUE,
     message |-> "Select at least 2 rows (header + 1 data row) with columns: Source | Target | Amount current | Amount last year"]

\* The selections read: the ranges of ChartInputs and a range of one row.
LoadRanges == ChartInputs \cup { <<<<TA, TB, N(100), N(90)>>>> }

\* What await ctx.sync() of one load does: it throws, or range.values is read.
HostOutcomes ==
    { [throws |-> TRUE, thrown |-> e, values |-> <<>>] : e \in HostErrors }
    \cup { [throws |-> FALSE, thrown |-> ParseError, values |-> v] : v \in LoadRanges }

\* (e as Error).message ?? "Failed to read Excel selection." with no message at all
ErrorMessageDefaultOnly(e) == "Failed to read Excel selection."

\* (e as Error).message ?? "Failed to read Excel selection."
ErrorMessage(e) ==
    IF e.hasMessage THEN e.message ELSE "Failed to read Excel selection."

\* setError(...) of loadData's catch
CaughtError(e) == [null |-> FALSE, message |-> ErrorMessage(e)]

\* setError("Export failed: " + (e as Error).message)
ExportError == [null |-> FALSE, message |-> "Export failed: The image could not be inserted."]

\* The GraphData parseExcelData returns, as held in the state graphData.
Parsed ==
    [null |-> FALSE, nodeMeta |-> nodeMeta, linkMeta |-> linkMeta,
     sankeyNodes |-> sankeyNodes, sankeyLinks |-> sankeyLinks]

InitLoad ==
    /\ parser \in {"loss", "sign"}
    /\ rawNull = FALSE
    /\ rawValues = <<>>
    /\ pc = "idle"
    /\ hasHeader = FALSE
    /\ rows = <<>>
    /\ idx = 1
    /\ nodeTotals = <<>>
    /\ linkMeta = <<>>
    /\ sankeyLinks = <<>>
    /\ nodeMeta = <<>>
    /\ sankeyNodes = <<>>
    /\ ChartIdle
    /\ FormatIdle
    /\ graphData = NoGraph
    /\ error = NoError
    /\ loading = FALSE
    /\ loadPc = "idle"
    /\ hostScript \in UNION {[1..n -> HostOutcomes] : n \in 0..MaxLoads}
    /\ exporting = FALSE

\* A click on Load (disabled while loading): setLoading(true), setError(null),
\* and the host is asked for the selection.
LoadStart ==
    /\ loadPc = "idle"
    /\ ~loading
    /\ hostScript # <<>>
    /\ loading' = TRUE
    /\ error' = NoError
    /\ loadPc' = "reading"
    /\ UNCHANGED <<parserVars, chartVars, formatVars, graphData, hostScript, exporting>>

\* The host read throws: catch, finally.
HostThrows ==
    /\ loadPc = "reading"
    /\ Head(hostScript).throws
    /\ error' = CaughtError(Head(hostScript).thrown)
    /\ loading' = FALSE
    /\ loadPc' = "idle"
    /\ hostScript' = Tail(hostScript)
    /\ UNCHANGED <<parserVars, chartVars, formatVars, graphData, exporting>>

\* The host read returns range.values and parseExcelData is called on it.
HostReturns ==
    /\ loadPc = "reading"
    /\ ~Head(hostScript).throws
    /\ rawNull' = FALSE
    /\ rawValues' = Head(hostScript).values
    /\ pc' = "start"
    /\ hasHeader' = FALSE
    /\ rows' = <<>>
    /\ idx' = 1
    /\ nodeTotals' = <<>>
    /\ linkMeta' = <<>>
    /\ sankeyLinks' = <<>>
    /\ nodeMeta' = <<>>
    /\ sankeyNodes' = <<>>
    /\ loadPc' = "parsing"
    /\ hostScript' = Tail(hostScript)
    /\ UNCHANGED <<parser, chartVars, formatVars, graphData, error, loading, exporting>>

\* parseExcelData throws: catch, finally.
LoadParseFailed ==
    /\ loadPc = "parsing"
    /\ pc = "error"
    /\ error' = CaughtError(ParseError)
    /\ loading' = FALSE
    /\ loadPc' = "idle"
    /\ pc' = "idle"
    /\ UNCHANGED <<parser, rawNull, rawValues, hasHeader, rows, idx, nodeTotals,
                   linkMeta, sankeyLinks, nodeMeta, sankeyNodes>>
    /\ UNCHANGED <<chartVars, formatVars, graphData, hostScript, exporting>>

\* parseExcelData returns: setGraphData(parsed), the chart's effect runs on the
\* new data (it returns at once when the graph has no node), finally.
LoadParsed ==
    /\ loadPc = "parsing"
    /\ pc = "done"
    /\ graphData' = Parsed
    /\ IF Len(sankeyNodes) = 0
       THEN UNCHANGED <<gNodes, gLinks, rendered>>
       ELSE /\ LET graph == EffectGraph(chart, props, sankeyNodes, sankeyLinks, dragState)
               IN  /\ gNodes' = graph.nodes
                   /\ gLinks' = graph.links
            /\ rendered' = TRUE
    /\ loading' = FALSE
    /\ loadPc' = "idle"
    /\ pc' = "idle"
    /\ UNCHANGED <<parser, rawNull, rawValues, hasHeader, rows, idx, nodeTotals,
                   linkMeta, sankeyLinks, nodeMeta, sankeyNodes>>
    /\ UNCHANGED <<chart, props, dragState, drags, formatVars, error, hostScript, exporting>>

\* A click on Export (disabled without a graph and while exporting).
ExportStart ==
    /\ loadPc # "parsing"
    /\ ~graphData.null
    /\ ~exporting
    /\ exporting' = TRUE
    /\ UNCHANGED <<parserVars, chartVars, formatVars, graphData, error, loading,
                   loadPc, hostScript>>

\* The export ends with the image inserted: finally.
ExportDone ==
    /\ loadPc # "parsing"
    /\ exporting
    /\ exporting' = FALSE
    /\ UNCHANGED <<parserVars, chartVars, formatVars, graphData, error, loading,
                   loadPc, hostScript>>

\* The export throws: catch, finally.
ExportFails ==
    /\ loadPc # "parsing"
    /\ exporting
    /\ error' = ExportError
    /\ exporting' = FALSE
    /\ UNCHANGED <<parserVars, chartVars, formatVars, graphData, loading, loadPc,
                   hostScript>>

NextLoad ==
    \/ LoadStart \/ HostThrows \/ HostReturns
    \/ Validate \/ LoopLoss \/ LoopSign \/ BuildLoss \/ BuildSign
    \/ LoadParseFailed \/ LoadParsed
    \/ ExportStart \/ ExportDone \/ ExportFails

SpecLoad == InitLoad /\ [][NextLoad]_vars

(* --------------- the task pane: drags and a second load ---------------- *)

\* Two loads of different datasets, with or without a load between them that
\* fails in the host read or in the parse.
ReloadScripts ==
    LET datasets == { o \in HostOutcomes : o.values \in ChartInputs }
        failures == { o \in HostOutcomes :
                          \/ o.throws /\ o.thrown.hasMessage /\ o.thrown.message # ""
                          \/ ~o.throws /\ o.values \notin ChartInputs }
    IN  { s \in datasets \X datasets : s[1] # s[2] }
        \cup { s \in datasets \X failures \X datasets : s[1] # s[3] }

InitReload ==
    /\ parser \in {"loss", "sign"}
    /\ rawNull = FALSE
    /\ rawValues = <<>>
    /\ pc = "idle"
    /\ hasHeader = FALSE
    /\ rows = <<>>
    /\ idx = 1
    /\ nodeTotals = <<>>
    /\ linkMeta = <<>>
    /\ sankeyLinks = <<>>
    /\ nodeMeta = <<>>
    /\ sankeyNodes = <<>>
    /\ chart \in {"current", "embedded"}
    /\ props = InitialProps
    /\ rendered = FALSE
    /\ gNodes = <<>>
    /\ gLinks = <<>>
    /\ dragState = NoDrags
    /\ drags = 0
    /\ FormatIdle
    /\ graphData = NoGraph
    /\ error = NoError
    /\ loading = FALSE
    /\ loadPc = "idle"
    /\ hostScript \in ReloadScripts
    /\ exporting = FALSE

NextReload ==
    \/ LoadStart \/ HostThrows \/ HostReturns
    \/ Validate \/ LoopLoss \/ LoopSign \/ BuildLoss \/ BuildSign
    \/ LoadParseFailed \/ LoadParsed
    \/ OnDragCurrent \/ OnDragEmbedded

SpecReload == InitReload /\ [][NextReload]_vars

TypeOK ==
    /\ pc \in {"idle", "start", "loop", "done", "error"}
    /\ Len(linkMeta) = Len(sankeyLinks)

(* ------------------------- reading the results ------------------------ *)

\* The rows the loop has been through, and those among them it kept.
Processed == SubSeq(rows, 1, idx - 1)

KeptRows == SelectSeq(Processed, LAMBDA r : ~SkipRow(r))

Returned == pc = "done"

NodeMetaKeys == {nodeMeta[k].id : k \in 1..Len(nodeMeta)}

SankeyNodeIds == {sankeyNodes[k].id : k \in 1..Len(sankeyNodes)}

\* Sum of a field over the edges that have the node id at one end.
RECURSIVE EdgeSum(_, _, _, _)
EdgeSum(lm, id, end, field) ==
    IF lm = <<>> THEN 0
    ELSE (IF Head(lm)[end] = id THEN Head(lm)[field] ELSE 0)
         + EdgeSum(Tail(lm), id, end, field)

HasIncoming(id) == \E i \in 1..Len(linkMeta) : linkMeta[i].targetId = id

HasOutgoing(id) == \E i \in 1..Len(linkMeta) : linkMeta[i].sourceId = id

(* -------------------------------- C1 ---------------------------------- *)

\* C1: in a returned graph every sourceId and targetId of linkMeta and every
\* source and target of sankeyLinks is a key of nodeMeta and an id of
\* sankeyNodes, the ids of loss nodes included.
C1_NoDanglingReferences ==
    Returned =>
        /\ \A i \in 1..Len(linkMeta) :
              {linkMeta[i].sourceId, linkMeta[i].targetId}
                  \subseteq (NodeMetaKeys \cap SankeyNodeIds)
        /\ \A i \in 1..Len(sankeyLinks) :
              {sankeyLinks[i].source, sankeyLinks[i].target}
                  \subseteq (NodeMetaKeys \cap SankeyNodeIds)

\* A returned graph with an edge into a loss node.
C1_Witness ==
    /\ Returned
    /\ \E i \in 1..Len(linkMeta) : StartsWith(linkMeta[i].targetId, LOSS_PREFIX)

(* -------------------------------- C2 ---------------------------------- *)

\* C2: a node's totalValue is the larger of its total inflow and its total
\* outflow, never the sum of both, and totalPrior likewise.
C2_TotalIsLargerDirection ==
    Returned =>
        \A k \in 1..Len(nodeMeta) :
            LET id == nodeMeta[k].id
            IN /\ nodeMeta[k].totalValue
                    = Max(EdgeSum(linkMeta, id, "targetId", "value"),
                          EdgeSum(linkMeta, id, "sourceId", "value"))
               /\ nodeMeta[k].totalPrior
                    = Max(EdgeSum(linkMeta, id, "targetId", "prior"),
                          EdgeSum(linkMeta, id, "sourceId", "prior"))

(* -------------------------------- C3 ---------------------------------- *)

\* C3: a node without incoming edge has the sum of its outgoing edges'
\* magnitudes as totalValue, a node without outgoing edge the sum of its
\* incoming edges' magnitudes; zero and negative amounts included.
C3_PureSourceSinkTotals ==
    Returned =>
        \A k \in 1..Len(nodeMeta) :
            LET id == nodeMeta[k].id
            IN /\ ~HasIncoming(id) =>
                     nodeMeta[k].totalValue = EdgeSum(linkMeta, id, "sourceId", "value")
               /\ ~HasOutgoing(id) =>
                     nodeMeta[k].totalValue = EdgeSum(linkMeta, id, "targetId", "value")

\* A pure source and a pure sink with flow, in a graph with a negative row.
C3_Witness ==
    /\ Returned
    /\ \E i \in 1..Len(KeptRows) : valOf(KeptRows[i]) < 0
    /\ \E k \in 1..Len(nodeMeta) :
          ~HasIncoming(nodeMeta[k].id) /\ nodeMeta[k].totalValue > 0
    /\ \E k \in 1..Len(nodeMeta) :
          ~HasOutgoing(nodeMeta[k].id) /\ nodeMeta[k].totalValue > 0

(* -------------------------------- C4 ---------------------------------- *)

\* C4: the call fails exactly when the input is missing or has fewer than 2
\* rows, and a failed call leaves no graph, not even a partial one.
C4_TooFewRowsFails ==
    /\ pc # "start" =>
          ((pc = "error") <=> (rawNull \/ Len(rawValues) < 2))
    /\ pc = "error" =>
          /\ nodeTotals = <<>> /\ nodeMeta = <<>> /\ sankeyNodes = <<>>
          /\ linkMeta = <<>> /\ sankeyLinks = <<>>

\* The call has failed on a range of one row.
C4_Witness == pc = "error" /\ ~rawNull /\ Len(rawValues) = 1

(* -------------------------------- C5 ---------------------------------- *)

\* C5: yoyPct is null if and only if the prior is exactly 0: the row's parsed
\* prior amount for an edge (0 when the fourth column is missing), totalPrior
\* for a node.
C5_YoyNullIffPriorZero ==
    /\ Len(linkMeta) = Len(KeptRows)
    /\ \A i \in 1..Len(linkMeta) :
          linkMeta[i].yoyPct.null <=> (priorOf(KeptRows[i]) = 0)
    /\ \A k \in 1..Len(nodeMeta) :
          nodeMeta[k].yoyPct.null <=> (nodeMeta[k].totalPrior = 0)

\* A returned graph with an edge of a row without fourth column, an edge
\* with a negative prior, and nodes with and without prior total.
C5_Witness ==
    /\ Returned
    /\ \E i \in 1..Len(KeptRows) : KeptRows[i][4].t = "undefined"
    /\ \E i \in 1..Len(KeptRows) : priorOf(KeptRows[i]) < 0
    /\ \E k \in 1..Len(nodeMeta) : nodeMeta[k].totalPrior = 0
    /\ \E k \in 1..Len(nodeMeta) : nodeMeta[k].totalPrior # 0

(* -------------------------------- C6 ---------------------------------- *)

\* C6 as stated: with a non-zero prior, yoyPct is (current - prior) / prior
\* * 100 with the signed prior, for edges and for nodes alike.
C6_YoySignedPrior ==
    /\ Len(linkMeta) = Len(KeptRows)
    /\ \A i \in 1..Len(linkMeta) :
          LET val == valOf(KeptRows[i])
              prior == priorOf(KeptRows[i])
          IN prior # 0 => linkMeta[i].yoyPct = Frac((val - prior) * 100, prior)
    /\ \A k \in 1..Len(nodeMeta) :
          nodeMeta[k].totalPrior # 0 =>
              nodeMeta[k].yoyPct
                  = Frac((nodeMeta[k].totalValue - nodeMeta[k].totalPrior) * 100,
                         nodeMeta[k].totalPrior)

\* C6 amended: with a non-zero prior, yoyPct is (current - prior) / |prior|
\* * 100, the divisor being the magnitude of the prior; current and prior
\* are the row's signed amounts for an edge and the totals for a node, and
\* an edge and a node with the same current and prior get the same yoyPct.
C6_YoyPriorMagnitude ==
    /\ Len(linkMeta) = Len(KeptRows)
    /\ \A i \in 1..Len(linkMeta) :
          LET val == valOf(KeptRows[i])
              prior == priorOf(KeptRows[i])
          IN /\ prior # 0 =>
                   linkMeta[i].yoyPct = Frac((val - prior) * 100, Abs(prior))
             /\ \A k \in 1..Len(nodeMeta) :
                   (prior # 0 /\ nodeMeta[k].totalValue = val
                              /\ nodeMeta[k].totalPrior = prior)
                       => nodeMeta[k].yoyPct = linkMeta[i].yoyPct
    /\ \A k \in 1..Len(nodeMeta) :
          nodeMeta[k].totalPrior # 0 =>
              nodeMeta[k].yoyPct
                  = Frac((nodeMeta[k].totalValue - nodeMeta[k].totalPrior) * 100,
                         Abs(nodeMeta[k].totalPrior))

\* A returned graph with an edge of negative prior, and with an edge and a
\* node that have the same non-zero current and prior.
C6_Witness ==
    /\ Returned
    /\ \E i \in 1..Len(KeptRows) : priorOf(KeptRows[i]) < 0
    /\ \E i \in 1..Len(KeptRows), k \in 1..Len(nodeMeta) :
          /\ priorOf(KeptRows[i]) # 0
          /\ nodeMeta[k].totalValue = valOf(KeptRows[i])
          /\ nodeMeta[k].totalPrior = priorOf(KeptRows[i])

(* -------------------------------- C7 ---------------------------------- *)

\* The cell reads as a number: it is one, or its text does after the
\* normalisation of parseNum.
ParsesAsNumber(c) ==
    \/ c.t = "number"
    \/ /\ c.t \in {"string", "boolean"}
       /\ ~ParseFloat(ReplaceComma(RemoveSpaces(Trim(StringOf(c))))).nan

\* C7: the first row is discarded as a header if and only if its third cell
\* does not parse as a number, whatever the kind of the cell; otherwise it
\* is kept as a data row.
C7_HeaderIffThirdCellNotNumber ==
    pc \in {"loop", "done"} =>
        /\ hasHeader <=> ~ParsesAsNumber(rawValues[1][3])
        /\ rows = IF hasHeader THEN Tail(rawValues) ELSE rawValues

(* -------------------------------- C8 ---------------------------------- *)

\* The label cell holds a label: a non-empty text or a number.
LabelPresent(c) == (c.t = "string" /\ c.s # <<>>) \/ c.t = "number"

\* C8: a data row is skipped exactly when its source or target label is
\* empty or missing; every row with two non-empty labels, text or numeric,
\* produces an edge, and a skipped row produces nothing.
C8_SkippedIffLabelMissing ==
    pc \in {"loop", "done"} =>
        /\ Len(linkMeta)
             = Len(SelectSeq(Processed,
                             LAMBDA r : LabelPresent(r[1]) /\ LabelPresent(r[2])))
        /\ Len(sankeyLinks) = Len(linkMeta)

(* -------------------------------- C9 ---------------------------------- *)

\* The number a cell of the inputs stands for: a number cell its number, the
\* texts 1,5 and 1.5 one and a half, the text "1 0" ten, every other cell 0.
ExpectedNumber(c) ==
    CASE c.t = "number" -> c.n
      [] c = Str(<<"1", ",", "5">>) -> Unit + (Unit \div 2)
      [] c = Str(<<"1", ".", "5">>) -> Unit + (Unit \div 2)
      [] c = Str(<<"1", " ", "0">>) -> 10 * Unit
      [] OTHER -> 0

\* C9: an amount or prior cell that does not parse as a number counts as 0
\* and its row still yields its edge and its nodes; the call never fails
\* because of such a cell; numeric text reads the same with either decimal
\* separator, white space removed.
C9_NumericCoercion ==
    /\ pc = "error" => (rawNull \/ Len(rawValues) < 2)
    /\ Len(linkMeta) = Len(KeptRows)
    /\ \A i \in 1..Len(linkMeta) :
          /\ linkMeta[i].value = Abs(ExpectedNumber(KeptRows[i][3]))
          /\ linkMeta[i].prior = Abs(ExpectedNumber(KeptRows[i][4]))
          /\ HasKey(nodeTotals, srcIdOf(KeptRows[i]))
          /\ HasKey(nodeTotals, tgtIdOf(KeptRows[i]))

\* A returned graph built from a row with a boolean amount and a text prior
\* that is no number, a row with both decimal separators, and a row with
\* white space in the amount and no fourth column.
C9_Witness ==
    /\ Returned
    /\ \E i \in 1..Len(KeptRows) :
          KeptRows[i][3].t = "boolean" /\ KeptRows[i][4] = Str(<<"x">>)
    /\ \E i \in 1..Len(KeptRows) :
          /\ KeptRows[i][3] = Str(<<"1", ",", "5">>)
          /\ KeptRows[i][4] = Str(<<"1", ".", "5">>)
    /\ \E i \in 1..Len(KeptRows) :
          KeptRows[i][3] = Str(<<"1", " ", "0">>) /\ KeptRows[i][4].t = "undefined"

(* -------------------------------- C10 --------------------------------- *)

\* C10: linkMeta and sankeyLinks hold one entry per kept row, in row order,
\* entry i of both describing row i; rows that repeat a (source, target)
\* pair stay separate edges.
C10_OneEdgePerRow ==
    /\ Len(linkMeta) = Len(KeptRows)
    /\ Len(sankeyLinks) = Len(KeptRows)
    /\ \A i \in 1..Len(KeptRows) :
          /\ i <= Len(linkMeta) /\ i <= Len(sankeyLinks)
          /\ linkMeta[i].sourceId = srcIdOf(KeptRows[i])
          /\ linkMeta[i].targetId
                \in {tgtIdOf(KeptRows[i]), lossIdOf(tgtIdOf(KeptRows[i]))}
          /\ linkMeta[i].value = Abs(valOf(KeptRows[i]))
          /\ linkMeta[i].prior = Abs(priorOf(KeptRows[i]))
          /\ sankeyLinks[i].source = linkMeta[i].sourceId
          /\ sankeyLinks[i].target = linkMeta[i].targetId
          /\ sankeyLinks[i].value = FlooredValue(linkMeta[i].value)

\* A returned graph with two edges of the same pair and different amounts,
\* built from a range in which a row was skipped.
C10_Witness ==
    /\ Returned
    /\ Len(KeptRows) < Len(rows)
    /\ \E i, j \in 1..Len(linkMeta) :
          /\ i < j
          /\ linkMeta[i].sourceId = linkMeta[j].sourceId
          /\ linkMeta[i].targetId = linkMeta[j].targetId
          /\ linkMeta[i].value # linkMeta[j].value

(* -------------------------------- C11 --------------------------------- *)

\* C11: every sankeyLinks value is at least the floor 0.001, also for a row
\* of amount 0, and the floor stays out of the aggregates: linkMeta.value is
\* the true |amount| and a node's total is made of true amounts only.
C11_FlooredLinksTrueTotals ==
    /\ Len(linkMeta) = Len(KeptRows)
    /\ Len(sankeyLinks) = Len(KeptRows)
    /\ \A i \in 1..Len(KeptRows) :
          /\ sankeyLinks[i].value >= MIN_LINK_VALUE
          /\ linkMeta[i].value = Abs(valOf(KeptRows[i]))
    /\ \A k \in 1..Len(nodeTotals) :
          LET id == nodeTotals[k].id
              in == EdgeSum(linkMeta, id, "targetId", "value")
              out == EdgeSum(linkMeta, id, "sourceId", "value")
          IN IF parser = "loss" THEN nodeTotals[k].value = in + out
             ELSE nodeTotals[k].inVal = in /\ nodeTotals[k].outVal = out

(* -------------------------------- C12 --------------------------------- *)

\* The ids the labels of the kept rows give.
RealIds ==
    {srcIdOf(KeptRows[i]) : i \in 1..Len(KeptRows)}
        \cup {tgtIdOf(KeptRows[i]) : i \in 1..Len(KeptRows)}

\* C12: in the loss-routing parser the node ids are unique, the id of a loss
\* node is never the id of a real label, and no real label is displayed or
\* coloured as a loss node.
C12_LossIdsApartFromLabels ==
    (Returned /\ parser = "loss") =>
        /\ \A j, k \in 1..Len(nodeMeta) : nodeMeta[j].id = nodeMeta[k].id => j = k
        /\ \A i \in 1..Len(KeptRows) :
              valOf(KeptRows[i]) < 0 => lossIdOf(tgtIdOf(KeptRows[i])) \notin RealIds
        /\ \A k \in 1..Len(nodeMeta) :
              nodeMeta[k].id \in RealIds =>
                  /\ nodeMeta[k].name = nodeMeta[k].id
                  /\ nodeMeta[k].fillColor = COLORS[classifyId(nodeMeta[k].id)].fill

(* -------------------------------- C13 --------------------------------- *)

\* The id a row's edge ends in under loss routing.
RoutedTarget(row) ==
    IF valOf(row) < 0 THEN LOSS_PREFIX \o tgtIdOf(row) ELSE tgtIdOf(row)

\* What the kept rows add to the node id: |amount| (or |prior|, by pick) of
\* every row it is the source of and of every row routed to it.
RECURSIVE RoutedSum(_, _, _)
RoutedSum(rs, id, pick) ==
    IF rs = <<>> THEN 0
    ELSE LET r == Head(rs)
             a == Abs(IF pick = "value" THEN valOf(r) ELSE priorOf(r))
         IN (IF srcIdOf(r) = id THEN a ELSE 0)
            + (IF RoutedTarget(r) = id THEN a ELSE 0)
            + RoutedSum(Tail(rs), id, pick)

\* C13: in the loss-routing parser a row of negative amount yields an edge
\* from its source to the loss node of its declared target, a row of
\* non-negative amount an edge to the declared target; |amount| goes to the
\* source's total and to the total of the node the edge ends in, and to no
\* other total, so not to the declared target of a negative row.
C13_NegativeRoutedToLoss ==
    parser = "loss" =>
        /\ Len(linkMeta) = Len(KeptRows)
        /\ \A i \in 1..Len(linkMeta) :
              /\ linkMeta[i].sourceId = srcIdOf(KeptRows[i])
              /\ linkMeta[i].targetId = RoutedTarget(KeptRows[i])
        /\ \A k \in 1..Len(nodeTotals) :
              /\ nodeTotals[k].value = RoutedSum(KeptRows, nodeTotals[k].id, "value")
              /\ nodeTotals[k].prior = RoutedSum(KeptRows, nodeTotals[k].id, "prior")

\* A returned graph of the loss-routing parser with a negative row whose
\* declared target got nothing, and with a non-negative row.
C13_Witness ==
    /\ Returned /\ parser = "loss"
    /\ \E i \in 1..Len(KeptRows) : valOf(KeptRows[i]) > 0
    /\ \E i \in 1..Len(KeptRows), k \in 1..Len(nodeMeta) :
          /\ valOf(KeptRows[i]) < 0
          /\ nodeMeta[k].id = tgtIdOf(KeptRows[i])
          /\ nodeMeta[k].totalValue = 0

(* -------------------------------- C14 --------------------------------- *)

\* Signed sum of the amounts of the kept rows that have id at the end
\* (1 the source, 2 the target).
RECURSIVE SignedSum(_, _, _)
SignedSum(rs, id, end) ==
    IF rs = <<>> THEN 0
    ELSE (IF Trim(StringOf(Head(rs)[end])) = id THEN valOf(Head(rs)) ELSE 0)
         + SignedSum(Tail(rs), id, end)

RECURSIVE AbsSum(_, _, _)
AbsSum(rs, id, end) ==
    IF rs = <<>> THEN 0
    ELSE (IF Trim(StringOf(Head(rs)[end])) = id THEN Abs(valOf(Head(rs))) ELSE 0)
         + AbsSum(Tail(rs), id, end)

\* C14: in the sign-as-category parser every edge joins the declared source
\* and target, an edge is Cost exactly when its amount is negative and
\* Profit otherwise, a node is Cost exactly when the signed sum of its
\* inflow is negative (of its outflow, when it has no inflow) and Profit
\* otherwise; labels play no part and nothing is Neutral.
C14_CategoryBySign ==
    (Returned /\ parser = "sign") =>
        /\ Len(linkMeta) = Len(KeptRows)
        /\ \A i \in 1..Len(linkMeta) :
              /\ linkMeta[i].sourceId = srcIdOf(KeptRows[i])
              /\ linkMeta[i].targetId = tgtIdOf(KeptRows[i])
              /\ linkMeta[i].linkColor
                    = IF valOf(KeptRows[i]) < 0 THEN COLORS.cost.link
                      ELSE COLORS.profit.link
        /\ \A k \in 1..Len(nodeMeta) :
              LET id == nodeMeta[k].id
                  net == IF AbsSum(KeptRows, id, 2) > 0
                         THEN SignedSum(KeptRows, id, 2)
                         ELSE SignedSum(KeptRows, id, 1)
                  cls == IF net < 0 THEN "cost" ELSE "profit"
              IN /\ nodeMeta[k].fillColor = COLORS[cls].fill
                 /\ nodeMeta[k].accentColor = COLORS[cls].accent

\* A returned graph of the sign-as-category parser with a Cost edge, a
\* Profit edge, a Cost node, a Profit node whose label holds a cost
\* keyword, and a node whose only inflow is a row of amount 0 and whose
\* outflow is negative.
C14_Witness ==
    /\ Returned /\ parser = "sign"
    /\ \E k \in 1..Len(nodeMeta) :
          /\ HasIncoming(nodeMeta[k].id)
          /\ AbsSum(KeptRows, nodeMeta[k].id, 2) = 0
          /\ SignedSum(KeptRows, nodeMeta[k].id, 1) < 0
    /\ \E i \in 1..Len(KeptRows) : valOf(KeptRows[i]) < 0
    /\ \E i \in 1..Len(KeptRows) : valOf(KeptRows[i]) >= 0
    /\ \E k \in 1..Len(nodeMeta) : nodeMeta[k].fillColor = COLORS.cost.fill
    /\ \E k \in 1..Len(nodeMeta) :
          /\ classifyId(nodeMeta[k].id) = "cost"
          /\ nodeMeta[k].fillColor = COLORS.profit.fill

(* ------------------------ reading the chart --------------------------- *)

\* The step is the handling of one drag event.
DragStep == drags' = drags + 1

\* The nodes a step moved or resized.
MovedNodes == {k \in 1..Len(gNodes) : gNodes'[k] # gNodes[k]}

\* The links with the node of index k at one end.
Incident(k) ==
    {i \in 1..Len(gLinks) :
        gLinks[i].source = gNodes[k].id \/ gLinks[i].target = gNodes[k].id}

(* -------------------------------- C15 --------------------------------- *)

\* C15: a drag event leaves the dragged node's y0 within [0, H - nodeHeight],
\* H the canvas height less the top and bottom margins and nodeHeight the
\* node's y1 - y0, whatever the event's dy.
C15_DragClampedToCanvas ==
    [][DragStep =>
          \A k \in MovedNodes :
              /\ 0 <= gNodes'[k].y0
              /\ gNodes'[k].y0 <= H(chart, props) - (gNodes'[k].y1 - gNodes'[k].y0)]_vars

(* -------------------------------- C16 --------------------------------- *)

\* The graph as the layout alone gives it, before any drag is put back.
FreshGraph == EffectGraph(chart, props, sankeyNodes, sankeyLinks, NoDrags)

\* The port coordinates of link i: the heights y0 and y1 of its two ends and
\* their x positions, the source node's x1 and the target node's x0.
LinkPorts(nodes, links, i) ==
    [y0 |-> links[i].y0, y1 |-> links[i].y1,
     x0 |-> NodeOf(nodes, links[i].source).x1,
     x1 |-> NodeOf(nodes, links[i].target).x0]

\* The position and size of a node.
NodeBox(node) == [x0 |-> node.x0, x1 |-> node.x1, y0 |-> node.y0, y1 |-> node.y1]

\* C16: a drag event on node n changes the port coordinates only of links
\* that have n as source or target; every other link keeps its port
\* coordinates and every node other than n keeps its x0, x1, y0 and y1.
C16_DragTouchesIncidentOnly ==
    [][DragStep =>
          \E n \in 1..Len(gNodes) :
              /\ \A k \in (1..Len(gNodes)) \ {n} :
                    NodeBox(gNodes'[k]) = NodeBox(gNodes[k])
              /\ \A i \in (1..Len(gLinks)) \ Incident(n) :
                    LinkPorts(gNodes', gLinks', i) = LinkPorts(gNodes, gLinks, i)]_vars

\* After a drag of one node in the current component: a link of the dragged
\* node has left the port the layout gave it, and a link that does not touch
\* the dragged node is where the layout put it.
C16_Witness ==
    /\ rendered /\ chart = "current" /\ drags = 1
    /\ \E k \in 1..Len(gNodes) :
          /\ gNodes[k].id \in DOMAIN dragState
          /\ \E i \in Incident(k) :
                LinkPorts(gNodes, gLinks, i)
                    # LinkPorts(FreshGraph.nodes, FreshGraph.links, i)
          /\ \E i \in (1..Len(gLinks)) \ Incident(k) :
                LinkPorts(gNodes, gLinks, i)
                    = LinkPorts(FreshGraph.nodes, FreshGraph.links, i)

(* -------------------------------- C17 --------------------------------- *)

\* The step is a change of props on which the effect runs again.
RelayoutStep ==
    /\ rendered
    /\ props' # props
    /\ EffectDeps(chart, props') # EffectDeps(chart, props)

\* The node of index k is away from where the layout alone puts it.
OffDefault(k) ==
    \/ gNodes[k].x0 # FreshGraph.nodes[k].x0
    \/ gNodes[k].y0 # FreshGraph.nodes[k].y0

\* C17: a re-layout of the same data after a change of scale, decimals,
\* display mode or canvas size leaves a node that a drag has moved at its
\* last dragged x0 and y0, lays the link ports out from the nodes' positions
\* after it, and puts a node that was never dragged at its default position.
C17_RelayoutKeepsDrags ==
    [][RelayoutStep =>
          /\ \A k \in 1..Len(gNodes) :
                (OffDefault(k) \/ gNodes[k].id \in DOMAIN dragState) =>
                    /\ gNodes'[k].x0 = gNodes[k].x0
                    /\ gNodes'[k].y0 = gNodes[k].y0
          /\ gLinks' = update(gNodes', gLinks')
          /\ \A k \in 1..Len(gNodes) :
                (~OffDefault(k) /\ gNodes[k].id \notin DOMAIN dragState) =>
                    NodeBox(gNodes'[k])
                        = NodeBox(EffectGraph(chart, props', sankeyNodes,
                                              sankeyLinks, NoDrags).nodes[k])]_vars

(* -------------------------------- C18 --------------------------------- *)

\* Link i has its source port within its source node's band [y0, y1] and its
\* target port within its target node's band.
InBand(nodes, links, i) ==
    LET s == NodeOf(nodes, links[i].source)
        t == NodeOf(nodes, links[i].target)
    IN  /\ s.y0 <= links[i].y0 /\ links[i].y0 <= s.y1
        /\ t.y0 <= links[i].y1 /\ links[i].y1 <= t.y1

\* C18: when the handling of a drag event on node n ends, every link that has
\* n as source or target has its ports laid out from n's new position, the
\* source port within the source node's band and the target port within the
\* target node's band: between two events no link is detached from its node.
C18_DragRecomputesPorts ==
    [][DragStep =>
          \A k \in MovedNodes : \A i \in Incident(k) :
              /\ gLinks'[i] = update(gNodes', gLinks')[i]
              /\ InBand(gNodes', gLinks', i)]_vars

(* -------------------------------- C19 --------------------------------- *)

\* A node without its position: x0 and y0 set aside, the width x1 - x0 and the
\* height y1 - y0 kept, every other field as it is.
Unplaced(node) ==
    [node EXCEPT !.x0 = 0, !.x1 = node.x1 - node.x0,
                 !.y0 = 0, !.y1 = node.y1 - node.y0]

\* A link without its ports: value, width, source, target and index.
Unported(link) == [link EXCEPT !.y0 = 0, !.y1 = 0]

\* The nodes without their positions and the links without their ports.
AllUnplaced(nodes) == [k \in 1..Len(nodes) |-> Unplaced(nodes[k])]

AllUnported(links) == [i \in 1..Len(links) |-> Unported(links[i])]

\* Two graphs differ in positions and ports at most.
SameButPlaces(nodes, links, graph) ==
    /\ AllUnplaced(nodes) = AllUnplaced(graph.nodes)
    /\ AllUnported(links) = AllUnported(graph.links)

\* The GraphData the parser returned.
GraphData == <<nodeMeta, linkMeta, sankeyNodes, sankeyLinks>>

\* C19: a drag event changes positions alone: every node keeps its height
\* y1 - y0, its width x1 - x0 and its value, every link its value and width,
\* and the parsed GraphData is the same after as before.  The same holds for
\* putting the saved drag positions back on a re-layout: heights, widths,
\* values and link widths are those the layout gave.
C19_OnlyPositionsChange ==
    [][/\ DragStep =>
            /\ SameButPlaces(gNodes', gLinks', [nodes |-> gNodes, links |-> gLinks])
            /\ GraphData' = GraphData
       /\ RelayoutStep =>
            /\ SameButPlaces(gNodes', gLinks',
                             EffectGraph(chart, props', sankeyNodes, sankeyLinks,
                                         NoDrags))
            /\ GraphData' = GraphData]_vars

\* The current component after a drag and a re-layout at another canvas
\* height, with a dragged node away from the default position.
C19_Witness ==
    /\ rendered /\ chart = "current"
    /\ props.height = DEFAULT_HEIGHT
    /\ \E k \in 1..Len(gNodes) :
          /\ gNodes[k].id \in DOMAIN dragState
          /\ OffDefault(k)
          /\ gNodes[k].y1 - gNodes[k].y0 > 0

(* -------------------------------- C20 --------------------------------- *)

\* The rows of a range that the parser keeps, in their order.
KeptOf(values) == SelectSeq(DataRows(values), LAMBDA r : ~SkipRow(r))

\* The node totals after the kept rows, by the parser's own accumulation.
RECURSIVE TotalsOf(_, _)
TotalsOf(which, kept) ==
    IF kept = <<>> THEN <<>>
    ELSE LET before == TotalsOf(which, SubSeq(kept, 1, Len(kept) - 1))
             row == kept[Len(kept)]
         IN  IF which = "loss" THEN LossTotals(before, row)
             ELSE SignTotals(before, row)

\* sankeyNodes and sankeyLinks as a function of the parser and the range.
NodesOf(which, values) == NodeIds(TotalsOf(which, KeptOf(values)))

LinksOf(which, values) ==
    LET kept == KeptOf(values)
    IN  [i \in 1..Len(kept) |->
            IF which = "loss" THEN LossSankeyLink(kept[i]) ELSE SignSankeyLink(kept[i])]

\* The props with nothing but the canvas size left of them.
CanvasOnly(p) == [InitialProps EXCEPT !.width = p.width, !.height = p.height]

\* The drawn graph as a function of the rows, the canvas size and the
\* retained drag positions.
Rendering(values, p, saved) ==
    EffectGraph(chart, CanvasOnly(p), NodesOf(parser, values),
                LinksOf(parser, values), saved)

\* The step is a run of the effect: the first one, or a re-layout.
EffectStep == (~rendered /\ rendered') \/ RelayoutStep

\* C20: the graph a run of parse and layout draws is the same function of the
\* rows, the canvas size and the retained drag positions whatever came
\* before: node order, link order, node geometry and link ports do not depend
\* on the scale, the decimals, the display mode, earlier canvas sizes or the
\* order and number of the drags and renders.  In the current component this
\* holds after every event; in the embedded one, which retains no drag
\* position, after every run of the effect.
C20_RenderingDependsOnInputsOnly ==
    [][(rendered' /\ (chart = "current" \/ EffectStep)) =>
          [nodes |-> gNodes', links |-> gLinks']
              = Rendering(rawValues', props', dragState')]_vars

\* The current component after two drags and a change of scale, with a node
\* dragged away from its default position.
C20_Witness ==
    /\ rendered /\ chart = "current"
    /\ drags = 2
    /\ props.scale # InitialProps.scale
    /\ \E k \in 1..Len(gNodes) : gNodes[k].id \in DOMAIN dragState /\ OffDefault(k)
    /\ \E k \in 1..Len(gNodes) : gNodes[k].id \notin DOMAIN dragState

(* -------------------------------- C21 --------------------------------- *)

EndsWith(s, p) == Len(s) >= Len(p) /\ SubSeq(s, Len(s) - Len(p) + 1, Len(s)) = p

\* A rendering with d decimals: digits, and when d > 0 a comma with exactly d
\* digits after it; no point.
HasDecimals(core, d) ==
    /\ Len(core) >= (IF d = 0 THEN 1 ELSE d + 2)
    /\ \A j \in 1..Len(core) :
          IF d > 0 /\ j = Len(core) - d THEN core[j] = "," ELSE IsDigit(core[j])

\* C21: formatValue(value, scale, decimals) is the value divided by the
\* scale's divisor (Raw 1, K 1000, M 1000000, B 1000000000), rendered with
\* exactly decimals decimals (0, 1 or 2) as one of the two renderings next to
\* the quotient (the quotient itself when it has no more decimals), with a
\* comma for the decimal point and the scale's suffix right after (none for
\* Raw); formatValue(1500000000, B, 1) is "1,5B" and formatValue(0, Raw, 0)
\* is "0".
C21_FormatValueRendering ==
    formatted.done =>
        LET d == formatArgs.decimals
            suffix == Suffix(formatArgs.scale)
            text == formatted.text
            body == SubSeq(text, 1, Len(text) - Len(suffix))
            core == IF body # <<>> /\ Head(body) = "-" THEN Tail(body) ELSE body
            digits == ScaledDigits(formatArgs.value, ScaleShift(formatArgs.scale))
            kept == digits.int \o SubSeq(digits.frac, 1, d)
            rest == SubSeq(digits.frac, d + 1, Len(digits.frac))
        IN  /\ EndsWith(text, suffix)
            /\ HasDecimals(core, d)
            /\ SelectSeq(core, IsDigit) \in {kept, Increment(kept)}
            /\ StripZeros(rest) = <<>> => SelectSeq(core, IsDigit) = kept
            /\ (Head(body) = "-") = formatArgs.value.neg
            /\ formatArgs = [value |-> Big(FALSE, 1500000000, 0), scale |-> "B",
                             decimals |-> 1]
                   => text = <<"1", ",", "5", "B">>
            /\ formatArgs = [value |-> Big(FALSE, 0, 0), scale |-> "Raw",
                             decimals |-> 0]
                   => text = <<"0">>

(* ------------------------ C22: loads that fail ------------------------- *)

\* The messages a failed load leaves in error.
LoadMessages ==
    { CaughtError(e).message : e \in HostErrors \cup {ParseError} }

\* The step that ends a load whose host read throws.
ReadFailsStep == loadPc = "reading" /\ Head(hostScript).throws /\ loadPc' = "idle"

\* The step that ends a load whose parseExcelData throws.
ParseFailsStep == loadPc = "parsing" /\ pc = "error" /\ loadPc' = "idle"

\* The step that ends a load whose parse returned.
LoadSucceedsStep == loadPc = "parsing" /\ pc = "done" /\ loadPc' = "idle"

\* C22: when a load fails (the host read throws or parseExcelData throws) the
\* error message is set, the graphData loaded before is left as it was and
\* loading returns to false; a load clears the error of an earlier load when
\* it starts, and when it succeeds no load's error is left, graphData is the
\* whole new graph and loading returns to false; nothing but a successful
\* load changes graphData.
C22_LoadFailureKeepsGraph ==
    [][ /\ ReadFailsStep =>
              /\ ~error'.null
              /\ Head(hostScript).thrown.hasMessage =>
                     error'.message = Head(hostScript).thrown.message
              /\ graphData' = graphData
              /\ loading' = FALSE
        /\ ParseFailsStep =>
              /\ error' = [null |-> FALSE, message |-> ParseError.message]
              /\ graphData' = graphData
              /\ loading' = FALSE
        /\ (loadPc = "idle" /\ loadPc' = "reading") => (error' = NoError /\ loading')
        /\ LoadSucceedsStep =>
              /\ error'.null \/ error' = ExportError
              /\ graphData' = [null |-> FALSE, nodeMeta |-> nodeMeta,
                               linkMeta |-> linkMeta, sankeyNodes |-> sankeyNodes,
                               sankeyLinks |-> sankeyLinks]
              /\ loading' = FALSE
        /\ graphData' # graphData => LoadSucceedsStep
      ]_vars

\* A load has failed after a graph was loaded: the message is shown, the graph
\* is kept and nothing is loading.
C22_Witness ==
    /\ ~graphData.null
    /\ Len(graphData.sankeyNodes) > 0
    /\ ~error.null
    /\ error.message \in LoadMessages
    /\ ~loading
    /\ loadPc = "idle"
    /\ hostScript = <<>>

(* ----------------- C23: drags and a newly loaded dataset ---------------- *)

\* The step in which a dataset with nodes replaces the dataset displayed.
NewDatasetStep ==
    /\ LoadSucceedsStep
    /\ ~graphData.null
    /\ Len(sankeyNodes) > 0

\* C23: after a new dataset is loaded no node is positioned by a drag recorded
\* while an earlier dataset was displayed: the graph drawn for the new dataset
\* is its layout alone, also when a node of it has the id of a node dragged
\* before.
C23_NoDragAcrossDatasets ==
    [][ NewDatasetStep =>
            [nodes |-> gNodes', links |-> gLinks'] =
                EffectGraph(chart, props, sankeyNodes, sankeyLinks, NoDrags)
      ]_vars

(* -------------------- C24: nodes that no edge names -------------------- *)

\* The node ids of the returned graph that no edge of it has as source or as
\* target.
Unreferenced ==
    { sankeyNodes[k].id : k \in 1..Len(sankeyNodes) }
    \ ( { sankeyLinks[i].source : i \in 1..Len(sankeyLinks) }
        \cup { sankeyLinks[i].target : i \in 1..Len(sankeyLinks) } )

\* C24: every node of the graph parseExcelData returns is the source or the
\* target of at least one of its edges, also the declared target of a row
\* whose flow is routed to a loss node.
C24_EveryNodeReferenced ==
    Returned => Unreferenced = {}

====
